---- MODULE Spec2Model ----
(***************************************************************************)
(* Model of scripts/anilist.py: AniListSVG.inject and the operations it    *)
(* calls (parse_svg, extract_uris_data, find_object,                       *)
(* build_anilist_section).                                                 *)
(*                                                                         *)
(* A document is a record [n, kids, lab]: nodes 1..n, node 1 the root,     *)
(* kids[i] the sequence of i's children and lab[i] the element (tag and    *)
(* attributes).  A parsed document numbers its nodes in document order     *)
(* (pre-order).  Attribute values are sequences of tokens; None stands for *)
(* an attribute that is absent (Python's None).                            *)
(***************************************************************************)
EXTENDS Integers, Sequences, FiniteSets

\* ------------------------------------------------------------ bounds
\* Elements below the root of a source document.
MaxNodes == 3
\* Elements below the root of a target document.
MaxTargetNodes == 3
\* Largest --max-images value tried (the smallest is -1).
MaxCap == 2

\* ------------------------------------------------------------ names
SVG == "svg:svg"
FOREIGN == "svg:foreignObject"
IMAGE == "svg:image"
DIV == "xhtml:div"
IMG == "xhtml:img"
SECTION == "xhtml:section"
PARA == "xhtml:p"

None == << "<None>" >>
NoCap == << >>

El(tag, class, src, xhref, href) ==
  [tag |-> tag, class |-> class, id |-> "", src |-> src, xhref |-> xhref,
   href |-> href, x |-> None, y |-> None, width |-> None, height |-> None,
   alt |-> None]

NoDoc == [n |-> 0, kids |-> << >>, lab |-> << >>]

\* ------------------------------------------------------------ strings
Whitespace == {" "}
SemiTokens == {";base64,"}
PayloadTokens == {"A", "B", "png", "=", " "}

RECURSIVE LStrip(_)
LStrip(s) ==
  IF s # << >> /\ Head(s) \in Whitespace THEN LStrip(Tail(s)) ELSE s

RECURSIVE RStrip(_)
RStrip(s) ==
  IF s # << >> /\ s[Len(s)] \in Whitespace
  THEN RStrip(SubSeq(s, 1, Len(s) - 1))
  ELSE s

\* str.strip()
strip(s) == RStrip(LStrip(s))

\* bool(x) of an attribute value: None and "" are false.
Truthy(uri) == uri # None /\ uri # << >>

\* ^data:image/[^;]+;base64,[A-Za-z0-9+/=\s]+$ on a token sequence
PatternMatch(s) ==
  /\ Len(s) >= 4
  /\ s[1] = "data:image/"
  /\ \E i \in 3..(Len(s) - 1) :
       /\ s[i] = ";base64,"
       /\ \A j \in 2..(i - 1) : s[j] \notin SemiTokens
       /\ \A j \in (i + 1)..Len(s) : s[j] \in PayloadTokens

is_data_uri(uri) == IF Truthy(uri) THEN PatternMatch(strip(uri)) ELSE FALSE

Digit == << "0", "1", "2", "3", "4", "5", "6", "7", "8", "9" >>

RECURSIVE Digits(_)
Digits(k) ==
  IF k < 10 THEN << Digit[k + 1] >>
  ELSE Digits(k \div 10) \o << Digit[(k % 10) + 1] >>

\* str(int)
str(k) == IF k < 0 THEN << "-" >> \o Digits(-k) ELSE Digits(k)

\* ------------------------------------------------------------ ElementPath
RECURSIVE Iter(_, _)
RECURSIVE IterAll(_, _)
\* Element.iter(): the subtree of e in document order, e first.
Iter(d, e) == << e >> \o IterAll(d, d.kids[e])
IterAll(d, es) ==
  IF es = << >> THEN << >> ELSE Iter(d, Head(es)) \o IterAll(d, Tail(es))

RECURSIVE FindDescendants(_, _, _)
\* the step .//tag (or //tag): for each element of the result so far, its
\* descendants with that tag, the element itself excluded.
FindDescendants(d, elems, tag) ==
  IF elems = << >> THEN << >>
  ELSE LET e == Head(elems)
           Hit(c) == c # e /\ d.lab[c].tag = tag
       IN  SelectSeq(Iter(d, e), Hit) \o FindDescendants(d, Tail(elems), tag)

RECURSIVE FindChildren(_, _, _)
\* the step /tag: for each element of the result so far, its children with
\* that tag.
FindChildren(d, elems, tag) ==
  IF elems = << >> THEN << >>
  ELSE LET Hit(c) == d.lab[c].tag = tag
       IN  SelectSeq(d.kids[Head(elems)], Hit) \o FindChildren(d, Tail(elems), tag)

\* the predicate [@class='c']
WithClass(d, elems, c) ==
  LET Hit(e) == d.lab[e].class = c IN SelectSeq(elems, Hit)

AnilistDivs(d, e) == WithClass(d, FindDescendants(d, << e >>, DIV), "anilist")

\* .//xhtml:div[@class='anilist']/xhtml:div[@class='characters']/xhtml:img
StrictCandidates(d) ==
  FindChildren(d, WithClass(d, FindChildren(d, AnilistDivs(d, 1), DIV), "characters"), IMG)

\* .//xhtml:div[@class='anilist']//xhtml:img
RelaxedCandidates(d) == FindDescendants(d, AnilistDivs(d, 1), IMG)

\* .//svg:image
SvgImages(d) == FindDescendants(d, << 1 >>, IMAGE)

\* .//svg:foreignObject
ForeignObjects(d) == FindDescendants(d, << 1 >>, FOREIGN)

\* ------------------------------------------------------------ documents
Containers == {SVG, FOREIGN, DIV, SECTION}

RootDoc == [n |-> 1, kids |-> << << >> >>, lab |-> << El(SVG, "", None, None, None) >>]

RECURSIVE RightPath(_, _)
\* The open elements when the parser has read the last node of d: that node
\* and its ancestors.  The next element read becomes a child of one of them.
RightPath(d, e) ==
  IF d.kids[e] = << >> THEN {e}
  ELSE {e} \cup RightPath(d, d.kids[e][Len(d.kids[e])])

AddLeaf(d, par, l) ==
  [n |-> d.n + 1,
   kids |-> [d.kids EXCEPT ![par] = Append(@, d.n + 1)] \o << << >> >>,
   lab |-> Append(d.lab, l)]

\* Where the next element read can go: under an open element that can hold
\* children.
OpenContainers(d) == {a \in RightPath(d, 1) : d.lab[a].tag \in Containers}

Good == << "data:image/", "png", ";base64,", "A" >>
Padded == << " ", "data:image/", "png", ";base64,", "A", " ", "B", " " >>
BadUri == << "http://x" >>
BadPayload == << "data:image/", "png", ";base64,", "!" >>
Blank == << " " >>

SrcValues == {None, << >>, Good, Padded, BadUri, Blank}

SourceLabels ==
  {El(DIV, "anilist", None, None, None), El(DIV, "characters", None, None, None),
   El(DIV, "", None, None, None)}
  \cup {El(IMG, "", v, None, None) : v \in SrcValues}
  \cup {El(IMAGE, "", None, Good, None), El(IMAGE, "", None, None, Padded),
        El(IMAGE, "", None, BadUri, Good), El(IMAGE, "", None, << >>, BadPayload)}

\* The sources of the runs that explore every target document: the two
\* documents below and the documents a parser has read on its way to them.
\*   <svg><div class="anilist"><img src="http://x"/></div><image xlink:href=Good/></svg>
\*   <svg><image xlink:href=Good/><image href=Padded/></svg>
InjectSources ==
  {AddLeaf(AddLeaf(AddLeaf(RootDoc, 1, El(DIV, "anilist", None, None, None)),
                   2, El(IMG, "", BadUri, None, None)),
           1, El(IMAGE, "", None, Good, None)),
   AddLeaf(AddLeaf(RootDoc, 1, El(IMAGE, "", None, Good, None)),
           1, El(IMAGE, "", None, None, Padded))}

\* d is what a parser has read of s after d.n elements.
ReadPrefix(d, s) ==
  /\ d.n <= s.n
  /\ d.lab = SubSeq(s.lab, 1, d.n)
  /\ \A i \in 1..d.n :
       LET Seen(c) == c <= d.n IN d.kids[i] = SelectSeq(s.kids[i], Seen)

\* The documents a run may read: at most `most` elements below the root
\* and, when samples are given, on the way to one of them.
Readable(d, most, samples) ==
  /\ d.n <= most + 1
  /\ samples # {} => \E s \in samples : ReadPrefix(d, s)

\* The caps of the runs that explore every target document.
InjectCaps == {NoCap, << -1 >>, << 1 >>}

Geometry(l, x, y, w, h) == [l EXCEPT !.x = x, !.y = y, !.width = w, !.height = h]

TargetLabels ==
  {Geometry(El(FOREIGN, "", None, None, None), << "5" >>, None, << "5", "0" >>, None),
   El(DIV, "anilist", None, None, None),
   El(DIV, "", None, None, None),
   El(PARA, "", None, None, None)}

Caps == {NoCap} \cup {<< k >> : k \in (-1)..MaxCap}

\* ------------------------------------------------------------ state
VARIABLES
  pc,          \* where inject (and the operation it is in) stands
  max_images,  \* --max-images: NoCap or << k >>
  merge,       \* --merge
  width,       \* --width
  height,      \* --height
  source,      \* the parsed source document
  candidates,  \* the elements the current tier scans
  idx,         \* position of the running for loop
  data_uris,   \* the accepted URIs
  log,         \* what the scan did: read, accept and warn events, in order
  tiers,       \* the tiers whose query ran
  target,      \* the target document, as mutated
  parsed,      \* the target document as parsed
  fo,          \* the selected foreignObject (0: none yet)
  exit_code,   \* -1 while running
  fatal,       \* the error err() reported
  output       \* the document written

vars == << pc, max_images, merge, width, height, source, candidates, idx,
           data_uris, log, tiers, target, parsed, fo, exit_code, fatal, output >>

extractVars == << candidates, idx, data_uris, log, tiers >>
targetVars == << target, parsed, fo, output >>
argVars == << max_images, merge, width, height >>

\* err(msg): print and sys.exit(1)
err(kind) ==
  /\ pc' = "exit"
  /\ exit_code' = 1
  /\ fatal' = kind

Event(op, e) == [op |-> op, el |-> e]

\* ------------------------------------------------------------ parse_svg
\* parse_svg(source_svg): the file is missing, is not well-formed, or its
\* root element is read.
OpenSource ==
  /\ pc = "parse_source"
  /\ \/ /\ err("NotFound")
        /\ UNCHANGED source
     \/ /\ err("ParseError")
        /\ UNCHANGED source
     \/ /\ source' = RootDoc
        /\ pc' = "read_source"
        /\ UNCHANGED << exit_code, fatal >>
  /\ UNCHANGED << extractVars, targetVars, argVars >>

\* ET.parse reads the elements in document order, up to the end of the file.
ReadSource(labels, most, samples) ==
  /\ pc = "read_source"
  /\ \/ /\ \E par \in OpenContainers(source), l \in labels :
             /\ Readable(AddLeaf(source, par, l), most, samples)
             /\ source' = AddLeaf(source, par, l)
        /\ UNCHANGED pc
     \/ /\ pc' = "find_candidates"
        /\ UNCHANGED source
  /\ UNCHANGED << extractVars, targetVars, argVars, exit_code, fatal >>

\* ------------------------------------------------------------ extract_uris_data
\* if not candidates:
RunRelaxed(strict) == strict = << >>

\* max_images and len(data_uris) >= max_images
CapReachedOffByOne(cap, uris) == cap # NoCap /\ cap[1] # 0 /\ Len(uris) > cap[1]
CapReached(cap, uris) == cap # NoCap /\ cap[1] # 0 /\ Len(uris) >= cap[1]

\* if not data_uris:
FallbackNeededAlways(uris) == TRUE
FallbackNeeded(uris) == uris = << >>

\* element.get(xlink:href) or element.get("href")
HrefOf(l) == IF Truthy(l.xhref) THEN l.xhref ELSE l.href

\* One pass of a for loop's body over element e with attribute value uri:
\* the URIs and the events after it.
Examine(e, uri) ==
  [uris |-> IF is_data_uri(uri) THEN Append(data_uris, strip(uri)) ELSE data_uris,
   events |-> << Event("read", e) >>
              \o (IF is_data_uri(uri) THEN << Event("accept", e) >>
                  ELSE IF Truthy(uri) THEN << Event("warn", e) >>
                  ELSE << >>)]

FindCandidates ==
  /\ pc = "find_candidates"
  /\ LET strict == StrictCandidates(source)
         found == IF RunRelaxed(strict) THEN RelaxedCandidates(source) ELSE strict
     IN  /\ candidates' = found
         /\ tiers' = IF RunRelaxed(strict) THEN {"strict", "relaxed"} ELSE {"strict"}
         /\ pc' = IF found # << >> THEN "scan" ELSE "fallback"
  /\ data_uris' = << >>
  /\ idx' = 1
  /\ UNCHANGED << log, source, targetVars, argVars, exit_code, fatal >>

ScanCandidate ==
  /\ pc = "scan"
  /\ LET e == candidates[idx]
         r == Examine(e, source.lab[e].src)
     IN  /\ data_uris' = r.uris
         /\ log' = log \o r.events
         /\ pc' = IF CapReached(max_images, r.uris) THEN "parse_target"
                  ELSE IF idx = Len(candidates) THEN "fallback"
                  ELSE "scan"
  /\ idx' = idx + 1
  /\ UNCHANGED << candidates, tiers, source, targetVars, argVars, exit_code, fatal >>

Fallback ==
  /\ pc = "fallback"
  /\ IF FallbackNeeded(data_uris)
     THEN /\ candidates' = SvgImages(source)
          /\ tiers' = tiers \cup {"fallback"}
          /\ idx' = 1
          /\ pc' = IF SvgImages(source) # << >> THEN "scan_image" ELSE "finish"
     ELSE /\ pc' = "finish"
          /\ UNCHANGED << candidates, tiers, idx >>
  /\ UNCHANGED << data_uris, log, source, targetVars, argVars, exit_code, fatal >>

ScanImage ==
  /\ pc = "scan_image"
  /\ LET e == candidates[idx]
         r == Examine(e, HrefOf(source.lab[e]))
     IN  /\ data_uris' = r.uris
         /\ log' = log \o r.events
         /\ pc' = IF CapReached(max_images, r.uris) \/ idx = Len(candidates)
                  THEN "finish"
                  ELSE "scan_image"
  /\ idx' = idx + 1
  /\ UNCHANGED << candidates, tiers, source, targetVars, argVars, exit_code, fatal >>

FinishExtract ==
  /\ pc = "finish"
  /\ IF data_uris = << >>
     THEN err("NoDataURIs")
     ELSE /\ pc' = "parse_target"
          /\ UNCHANGED << exit_code, fatal >>
  /\ UNCHANGED << extractVars, source, targetVars, argVars >>

\* ------------------------------------------------------------ target
\* parse_svg(target_svg)
OpenTarget ==
  /\ pc = "parse_target"
  /\ \/ /\ err("NotFound")
        /\ UNCHANGED << target, parsed >>
     \/ /\ err("ParseError")
        /\ UNCHANGED << target, parsed >>
     \/ /\ target' = RootDoc
        /\ parsed' = RootDoc
        /\ pc' = "read_target"
        /\ UNCHANGED << exit_code, fatal >>
  /\ UNCHANGED << extractVars, source, fo, output, argVars >>

ReadTarget(labels, most) ==
  /\ pc = "read_target"
  /\ \/ /\ \E par \in OpenContainers(target), l \in labels :
             /\ Readable(AddLeaf(target, par, l), most, {})
             /\ target' = AddLeaf(target, par, l)
             /\ parsed' = AddLeaf(target, par, l)
        /\ UNCHANGED pc
     \/ /\ pc' = "find_object"
        /\ UNCHANGED << target, parsed >>
  /\ UNCHANGED << extractVars, source, fo, output, argVars, exit_code, fatal >>

\* ------------------------------------------------------------ find_object
\* element.find(".//xhtml:div[@class='anilist']") is not None
has_anilist(d, e) == AnilistDivs(d, e) # << >>

\* The mutant: merge's preference taken whatever merge is.
SelectObjectAlwaysMerge(d, m) ==
  LET foreign_object == ForeignObjects(d)
      Has(e) == has_anilist(d, e)
      anilist_fos == SelectSeq(foreign_object, Has)
  IN  IF anilist_fos # << >> THEN anilist_fos[1] ELSE foreign_object[1]

\* The foreignObject find_object picks, of a document that has one.
SelectObject(d, m) ==
  LET foreign_object == ForeignObjects(d)
      Has(e) == has_anilist(d, e)
      Not(e) == ~has_anilist(d, e)
      anilist_fos == SelectSeq(foreign_object, Has)
      other_fos == SelectSeq(foreign_object, Not)
  IN  IF m
      THEN IF anilist_fos # << >> THEN anilist_fos[1] ELSE foreign_object[1]
      ELSE IF other_fos # << >> THEN other_fos[1] ELSE foreign_object[1]

\* if merge: return ... (the children are cleared only past this return)
ClearsAlways(m) == TRUE
Clears(m) == ~m

\* Element.remove(child) of the child at position i
RemoveAt(children, i) ==
  SubSeq(children, 1, i - 1) \o SubSeq(children, i + 1, Len(children))

FindObject ==
  /\ pc = "find_object"
  /\ IF ForeignObjects(target) = << >>
     THEN /\ err("NoInsertionPoint")
          /\ UNCHANGED << fo, idx >>
     ELSE LET chosen == SelectObject(target, merge)
          IN  /\ fo' = chosen
              /\ idx' = 1
              /\ pc' = IF Clears(merge) /\ target.kids[chosen] # << >>
                       THEN "clear"
                       ELSE "inject"
              /\ UNCHANGED << exit_code, fatal >>
  /\ UNCHANGED << candidates, data_uris, log, tiers, source, target, parsed,
                  output, argVars >>

\* One pass of "for child in target: target.remove(child)": the iterator
\* holds a position in the child list the body is shrinking.
ClearChild ==
  /\ pc = "clear"
  /\ LET left == RemoveAt(target.kids[fo], idx)
     IN  /\ target' = [target EXCEPT !.kids[fo] = left]
         /\ pc' = IF idx + 1 <= Len(left) THEN "clear" ELSE "inject"
  /\ idx' = idx + 1
  /\ UNCHANGED << candidates, data_uris, log, tiers, source, parsed, fo,
                  output, argVars, exit_code, fatal >>

\* ------------------------------------------------------------ build_anilist_section
Class(l, c) == [l EXCEPT !.class = c]

Plain(tag) == El(tag, "", None, None, None)

Character(uri, w, h) ==
  [El(IMG, "", uri, None, None) EXCEPT
     !.width = str(w), !.height = str(h), !.alt = << "character" >>]

\* The mutant: the two elements returned in the other order.
build_anilist_section_metrics_first(images, w, h, base) ==
  [lab |-> << [Plain(DIV) EXCEPT !.id = "metrics-end"],
              Class(Plain(DIV), "items-wrapper"),
              Plain(SECTION),
              Class(Plain(DIV), "row fill-width"),
              Plain(SECTION),
              Class(Plain(DIV), "anilist"),
              Class(Plain(DIV), "characters") >>
           \o [i \in 1..Len(images) |-> Character(images[i], w, h)],
   kids |-> << << >>, << base + 3 >>, << base + 4 >>, << base + 5 >>,
               << base + 6 >>, << base + 7 >>,
               [i \in 1..Len(images) |-> base + 7 + i] >>
            \o [i \in 1..Len(images) |-> << >>],
   result |-> << base + 1, base + 2 >>]

\* The elements build_anilist_section creates, numbered from base + 1 in
\* the order it creates them, and the list it returns.
build_anilist_section(images, w, h, base) ==
  [lab |-> << [Plain(DIV) EXCEPT !.id = "metrics-end"],
              Class(Plain(DIV), "items-wrapper"),
              Plain(SECTION),
              Class(Plain(DIV), "row fill-width"),
              Plain(SECTION),
              Class(Plain(DIV), "anilist"),
              Class(Plain(DIV), "characters") >>
           \o [i \in 1..Len(images) |-> Character(images[i], w, h)],
   kids |-> << << >>, << base + 3 >>, << base + 4 >>, << base + 5 >>,
               << base + 6 >>, << base + 7 >>,
               [i \in 1..Len(images) |-> base + 7 + i] >>
            \o [i \in 1..Len(images) |-> << >>],
   result |-> << base + 2, base + 1 >>]

\* ------------------------------------------------------------ inject
\* fo.set(...) four times, then fo.append(child) for each child built.
Inject ==
  /\ pc = "inject"
  /\ LET built == build_anilist_section(data_uris, width, height, target.n)
         sized == Geometry(target.lab[fo], << "0" >>, << "0" >>,
                           << "1", "0", "0", "%" >>, << "1", "0", "0", "%" >>)
     IN  target' =
           [n |-> target.n + Len(built.lab),
            kids |-> [target.kids EXCEPT ![fo] = @ \o built.result] \o built.kids,
            lab |-> [target.lab EXCEPT ![fo] = sized] \o built.lab]
  /\ pc' = "write"
  /\ UNCHANGED << extractVars, source, parsed, fo, output, argVars, exit_code, fatal >>

\* target_file.write(path): the whole document is written, or err().
Write ==
  /\ pc = "write"
  /\ \/ /\ output' = target
        /\ pc' = "done"
        /\ exit_code' = 0
        /\ UNCHANGED fatal
     \/ /\ err("WriteError")
        /\ UNCHANGED output
  /\ UNCHANGED << extractVars, source, target, parsed, fo, argVars >>

\* ------------------------------------------------------------ specifications
InitCommon ==
  /\ pc = "parse_source"
  /\ source = NoDoc
  /\ candidates = << >>
  /\ idx = 0
  /\ data_uris = << >>
  /\ log = << >>
  /\ tiers = {}
  /\ target = NoDoc
  /\ parsed = NoDoc
  /\ fo = 0
  /\ exit_code = -1
  /\ fatal = ""
  /\ output = NoDoc

\* extract_uris_data over every source document and every cap, with the
\* command line's defaults for the rest.
InitExtract ==
  /\ InitCommon
  /\ max_images \in Caps
  /\ merge = FALSE
  /\ width = 36
  /\ height = 54

NextExtract ==
  \/ OpenSource
  \/ ReadSource(SourceLabels, MaxNodes, {})
  \/ FindCandidates
  \/ ScanCandidate
  \/ Fallback
  \/ ScanImage
  \/ FinishExtract

SpecExtract == InitExtract /\ [][NextExtract]_vars

\* --width and --height: the defaults, and another pair.
Dims == {<< 36, 54 >>, << -5, 120 >>}

\* inject over every target document, both settings of --merge and two
\* settings of --width and --height, on the sample source documents.
InitInject ==
  /\ InitCommon
  /\ max_images \in InjectCaps
  /\ merge \in BOOLEAN
  /\ \E d \in Dims : width = d[1] /\ height = d[2]

NextInject ==
  \/ OpenSource
  \/ ReadSource(SourceLabels, MaxNodes, InjectSources)
  \/ FindCandidates
  \/ ScanCandidate
  \/ Fallback
  \/ ScanImage
  \/ FinishExtract
  \/ OpenTarget
  \/ ReadTarget(TargetLabels, MaxTargetNodes)
  \/ FindObject
  \/ ClearChild
  \/ Inject
  \/ Write

SpecInject == InitInject /\ [][NextInject]_vars

\* ------------------------------------------------------------ properties
\* The parent of element c in document d (0 for the root).
Parent(d, c) ==
  IF \E q \in 1..d.n : \E i \in 1..Len(d.kids[q]) : d.kids[q][i] = c
  THEN CHOOSE q \in 1..d.n : \E i \in 1..Len(d.kids[q]) : d.kids[q][i] = c
  ELSE 0

RECURSIVE Ancestors(_, _)
Ancestors(d, c) ==
  IF Parent(d, c) = 0 THEN {} ELSE {Parent(d, c)} \cup Ancestors(d, Parent(d, c))

Min(S) == CHOOSE a \in S : \A b \in S : a <= b

Elements(op) == LET Is(ev) == ev.op = op IN SelectSeq(log, Is)

Count(op, e) == Cardinality({i \in 1..Len(log) : log[i] = Event(op, e)})

Positive(cap) == cap # NoCap /\ cap[1] > 0

\* The value the scan reads from element e of the source.
ValueRead(e) ==
  IF source.lab[e].tag = IMAGE THEN HrefOf(source.lab[e]) ELSE source.lab[e].src

Rejectable(uri) == uri # None /\ uri # << >> /\ ~PatternMatch(strip(uri))

\* An img that is a child of a div.characters that is a child of a
\* div.anilist below the root.
StrictImg(d, e) ==
  /\ d.lab[e].tag = IMG
  /\ Parent(d, e) # 0
  /\ d.lab[Parent(d, e)].tag = DIV
  /\ d.lab[Parent(d, e)].class = "characters"
  /\ Parent(d, Parent(d, e)) \notin {0, 1}
  /\ d.lab[Parent(d, Parent(d, e))].tag = DIV
  /\ d.lab[Parent(d, Parent(d, e))].class = "anilist"

FOs == {e \in 1..parsed.n : parsed.lab[e].tag = FOREIGN}

Marked ==
  {f \in FOs :
     \E e \in 1..parsed.n :
       /\ parsed.lab[e].tag = DIV
       /\ parsed.lab[e].class = "anilist"
       /\ f \in Ancestors(parsed, e)}

\* C1: find_object(root, merge=False) returns an element with no children,
\* however many it had before the call.
C1_ReturnedEmpty == (pc = "inject" /\ ~merge) => target.kids[fo] = << >>

\* C2: with a cap k > 0 at most k URIs are accepted, and once the k-th is
\* accepted nothing more is read, accepted or warned about, in any tier:
\* the k-th acceptance is the last event of the scan and both loops are left.
C2_CapStopsScan ==
  Positive(max_images) =>
    /\ Len(data_uris) <= max_images[1]
    /\ Len(Elements("accept")) = Len(data_uris)
    /\ Len(data_uris) = max_images[1] =>
         /\ log[Len(log)].op = "accept"
         /\ pc \notin {"scan", "scan_image", "fallback"}

\* A run whose cap was reached with a candidate left unread that would have
\* drawn a warning.
C2_Witness ==
  /\ pc = "parse_target"
  /\ Positive(max_images)
  /\ Len(data_uris) = max_images[1]
  /\ idx <= Len(candidates)
  /\ Rejectable(ValueRead(candidates[idx]))
  /\ Count("read", candidates[idx]) = 0

\* C3: the accepted URIs are in document order, each element contributing
\* at most once, and each is the trimmed value of its element.
C3_DocumentOrder ==
  LET acc == Elements("accept")
  IN  /\ Len(acc) = Len(data_uris)
      /\ \A i \in 1..Len(acc) : data_uris[i] = strip(ValueRead(acc[i].el))
      /\ \A i, j \in 1..Len(acc) : i < j => acc[i].el < acc[j].el

\* C4: the write step is reached only after source parsing, URI extraction
\* (with at least one accepted URI), target parsing and selection all
\* succeeded; a fatal condition ends the run with status 1 and no output.
C4_NoWriteUnlessAllSucceeded ==
  /\ pc \in {"write", "done"} =>
       /\ source # NoDoc
       /\ data_uris # << >>
       /\ parsed # NoDoc
       /\ fo \in FOs
  /\ output # NoDoc => data_uris # << >>
  /\ fatal \in {"NotFound", "ParseError", "NoDataURIs", "NoInsertionPoint"} =>
       /\ exit_code = 1
       /\ output = NoDoc
       /\ pc = "exit"

\* C5: every value read that is present, non-empty and not a data URI is
\* never accepted and draws exactly one warning.
C5_OneWarningEach ==
  \A e \in 1..source.n :
    (Count("read", e) > 0 /\ Rejectable(ValueRead(e))) =>
      /\ Count("accept", e) = 0
      /\ Count("warn", e) = 1

C7_SelectionRule ==
  /\ pc \in {"clear", "inject", "write", "done"} => fo \in FOs
  /\ (pc = "exit" /\ fatal = "NoInsertionPoint") => FOs = {}
  /\ fo # 0 =>
       fo = IF merge
            THEN IF Marked # {} THEN Min(Marked) ELSE Min(FOs)
            ELSE IF FOs \ Marked # {} THEN Min(FOs \ Marked) ELSE Min(FOs)

\* A selection that is not the first foreignObject of the document.
C7_Witness ==
  /\ pc = "inject"
  /\ fo # 0
  /\ fo # Min(FOs)

\* C8: every element other than the selected foreignObject keeps its
\* attributes and children; with merge the selected one keeps its children,
\* in order, ahead of the two appended elements (target.n > parsed.n: the
\* fragment has been built and appended).
C8_FrameOfInjection ==
  /\ \A e \in 1..parsed.n :
       e # fo => /\ target.kids[e] = parsed.kids[e]
                 /\ target.lab[e] = parsed.lab[e]
  /\ (merge /\ fo # 0) =>
       IF target.n > parsed.n
       THEN /\ Len(target.kids[fo]) = Len(parsed.kids[fo]) + 2
            /\ SubSeq(target.kids[fo], 1, Len(parsed.kids[fo])) = parsed.kids[fo]
            /\ \A i \in (Len(parsed.kids[fo]) + 1)..Len(target.kids[fo]) :
                 target.kids[fo][i] > parsed.n
       ELSE target.kids[fo] = parsed.kids[fo]

\* A merge run that wrote its output, whose foreignObject had children and
\* was not the only foreignObject.
C8_Witness ==
  /\ pc = "done"
  /\ merge
  /\ parsed.kids[fo] # << >>
  /\ FOs # {fo}

OnlyChild(d, e) == d.kids[e][1]

\* C9: the last two children of the insertion point are the items-wrapper
\* and then the metrics-end marker; the wrapper holds section > div.row >
\* section > div.anilist > div.characters, whose children are one img per
\* extracted URI, in order, with src, width, height and alt set.
C9_Fragment ==
  pc \in {"write", "done"} =>
    LET ks == target.kids[fo]
        items == ks[Len(ks) - 1]
        metrics == ks[Len(ks)]
        sec1 == OnlyChild(target, items)
        row == OnlyChild(target, sec1)
        sec2 == OnlyChild(target, row)
        anilist == OnlyChild(target, sec2)
        chars == OnlyChild(target, anilist)
        imgs == target.kids[chars]
        ImgIn(e) == target.lab[e].tag = IMG
    IN  /\ Len(ks) >= 2
        /\ target.lab[items].tag = DIV /\ target.lab[items].class = "items-wrapper"
        /\ target.lab[metrics].tag = DIV /\ target.lab[metrics].id = "metrics-end"
        /\ target.kids[metrics] = << >>
        /\ target.lab[sec1].tag = SECTION /\ Len(target.kids[items]) = 1
        /\ target.lab[row].class = "row fill-width" /\ Len(target.kids[sec1]) = 1
        /\ target.lab[sec2].tag = SECTION /\ Len(target.kids[row]) = 1
        /\ target.lab[anilist].class = "anilist" /\ Len(target.kids[sec2]) = 1
        /\ target.lab[chars].class = "characters" /\ Len(target.kids[anilist]) = 1
        /\ Len(imgs) = Len(data_uris)
        /\ SelectSeq(Iter(target, items), ImgIn) = imgs
        /\ \A i \in 1..Len(imgs) :
             /\ target.lab[imgs[i]].tag = IMG
             /\ target.lab[imgs[i]].src = data_uris[i]
             /\ target.lab[imgs[i]].width = str(width)
             /\ target.lab[imgs[i]].height = str(height)
             /\ target.lab[imgs[i]].alt = << "character" >>
             /\ target.kids[imgs[i]] = << >>
        /\ (width = 36 /\ height = 54 /\ imgs # << >>) =>
             /\ target.lab[imgs[1]].width = << "3", "6" >>
             /\ target.lab[imgs[1]].height = << "5", "4" >>
        /\ (width = -5 /\ height = 120 /\ imgs # << >>) =>
             /\ target.lab[imgs[1]].width = << "-", "5" >>
             /\ target.lab[imgs[1]].height = << "1", "2", "0" >>
        /\ pc = "done" => output = target

\* An output written with two img elements after children that were kept.
C9_Witness ==
  /\ pc = "done"
  /\ Len(data_uris) = 2
  /\ data_uris[1] # data_uris[2]
  /\ Len(target.kids[fo]) > 2

\* C10: extract_uris_data never returns an empty list, whatever the cap, so
\* no output is written without an img.
C10_NeverReturnsEmpty ==
  /\ pc \in {"parse_target", "read_target", "find_object", "clear", "inject",
             "write", "done"} => data_uris # << >>
  /\ output # NoDoc => \E e \in 1..output.n : output.lab[e].tag = IMG

====
